---- MODULE Spec2Model ----
(***************************************************************************)
(* State-machine model of jwt-pizza-service: the Express routers           *)
(* (authRouter, userRouter, orderRouter, franchiseRouter) in front of the  *)
(* DB class of database/database.js.  Every HTTP request is a process that *)
(* advances one await (storage call) at a time, so requests interleave the *)
(* way the Node event loop interleaves them.                               *)
(***************************************************************************)
EXTENDS Integers, Sequences, FiniteSets, TLC

(* ------------------------------ bounds --------------------------------- *)
MaxRequests == 2
MaxAuthRequests == 3
MaxUserRequests == 3
MaxAdminRequests == 2
MaxStoreRequests == 4
MaxDeleteRequests == 4
MaxSessionRequests == 2
MaxOrderRequests == 3
MaxFranchiseReadRequests == 4
MaxRevokeRequests == 3
MaxMiddlewareRequests == 3
MaxLogoutRaceRequests == 3
MaxUsers == 2
MaxClock == 1
MaxFranchises == 1
MaxStores == 1
MaxMenu == 1
MaxOrders == 1
MaxTokenLen == 6

(* --------------------------- program values ---------------------------- *)
Role == [Diner |-> "diner", Franchisee |-> "franchisee", Admin |-> "admin"]

jwtSecret == "jwtSecret"
JwtHeader == "HS256"

Missing == "missing"
Names == {"n1"}
Emails == {"a@jwt.com", "d@jwt.com"}
Passwords == {"pw1", "pw2"}
DefaultAdmin == [name |-> "n1", email |-> "a@jwt.com", password |-> "pw1"]
StoreNames == {"SLC"}
FranchiseNames == {"pizzaPocket"}
MenuTitles == {"Veggie"}

ReqIds == {1, 2}
UserIds == 1..MaxUsers
FranchiseIds == 1..MaxFranchises
StoreIds == 1..MaxStores

NoUser == [id |-> 0, name |-> Missing, email |-> Missing, roles |-> {}]
NoToken == <<>>
EmptySig == [empty |-> TRUE]

VARIABLES user, userRole, auth, menu, franchise, store, dinerOrder, autoinc,
          now, reqs, last, nreq, issued, revoked, tx

tables == <<user, userRole, auth, menu, franchise, store, dinerOrder, autoinc>>
vars == <<user, userRole, auth, menu, franchise, store, dinerOrder, autoinc,
          now, reqs, last, nreq, issued, revoked, tx>>

(* ------------------------------ helpers -------------------------------- *)
Max(S) == IF S = {} THEN 0 ELSE CHOOSE x \in S : \A y \in S : y <= x
Min(S) == CHOOSE x \in S : \A y \in S : x <= y

(* bcrypt.hash / bcrypt.compare: a one-way hash, verified by comparison *)
bcryptHash(password) == [hash |-> password]
bcryptCompare(password, hashed) == hashed = bcryptHash(password)

(* jsonwebtoken: HMAC over header and payload under a key *)
Sign(header, payload, key) == [h |-> header, p |-> payload, k |-> key]
jwtSign(u, key, iat) ==
  LET payload == [id |-> u.id, name |-> u.name, email |-> u.email,
                  roles |-> u.roles, iat |-> iat]
  IN <<JwtHeader, payload, Sign(JwtHeader, payload, key)>>
jwtVerify(token, key) ==
  /\ Len(token) = 3
  /\ token[3] = Sign(token[1], token[2], key)
Claims(token) ==
  [id |-> token[2].id, name |-> token[2].name, email |-> token[2].email,
   roles |-> token[2].roles]

isRoleAny(u, role) == u.roles # {}

isRole(u, role) == \E r \in u.roles : r.role = role

(* -------------------------- database/database.js ----------------------- *)
(* a token as the string it is on the wire, and token.split('.') *)
TokenChars == {"a", "."}
TokenStrings == UNION {[1..n -> TokenChars] : n \in 0..MaxTokenLen}

RECURSIVE split(_)
split(str) ==
  IF str = <<>> THEN << <<>> >>
  ELSE LET rest == split(Tail(str))
       IN IF Head(str) = "." THEN << <<>> >> \o rest
          ELSE << <<Head(str)>> \o Head(rest) >> \o Tail(rest)

(* variant: the last segment instead of the third *)
getTokenSignatureLast(token) ==
  IF Len(token) > 2 THEN token[Len(token)] ELSE EmptySig

getTokenSignature(token) == IF Len(token) > 2 THEN token[3] ELSE EmptySig

loginUserSingleSession(a, userId, token) ==
  LET sig == getTokenSignature(token)
  IN {row \in a : row.token # sig /\ row.userId # userId}
       \cup {[token |-> sig, userId |-> userId]}

loginUser(a, userId, token) ==
  LET sig == getTokenSignature(token)
  IN {row \in a : row.token # sig} \cup {[token |-> sig, userId |-> userId]}

(* variant: answers from the tokens handed out, never looking at the table *)
isLoggedInCached(a, token) == token \in issued

isLoggedIn(a, token) == \E row \in a : row.token = getTokenSignature(token)

logoutUser(a, token) == {row \in a : row.token # getTokenSignature(token)}

rolesOf(ur, userId) ==
  {[role |-> r.role, objectId |-> r.objectId] : r \in {x \in ur : x.userId = userId}}

(* addUser: the inserted row and its role rows; the id is AUTO_INCREMENT *)
addUserRow(u, name, email, password) ==
  [id |-> Max({x.id : x \in u}) + 1, name |-> name, email |-> email,
   password |-> bcryptHash(password)]
addUserRoles(newId, roles) ==
  {[userId |-> newId, role |-> r.role, objectId |-> r.objectId] : r \in roles}

(* getUser: the row with that email, the password compared only when given *)
getUserFound(u, email, password) ==
  LET rows == {x \in u : x.email = email}
  IN /\ rows # {}
     /\ LET row == CHOOSE x \in rows : x.id = Min({y.id : y \in rows})
        IN password = Missing \/ bcryptCompare(password, row.password)
getUser(u, ur, email) ==
  LET rows == {x \in u : x.email = email}
      row == CHOOSE x \in rows : x.id = Min({y.id : y \in rows})
  IN [id |-> row.id, name |-> row.name, email |-> row.email,
      roles |-> rolesOf(ur, row.id)]

(* updateUser: UPDATE user SET <the fields given> WHERE id = userId *)
updateUser(u, userId, name, email, password) ==
  {IF x.id # userId THEN x
   ELSE [id |-> x.id,
         name |-> IF name = Missing THEN x.name ELSE name,
         email |-> IF email = Missing THEN x.email ELSE email,
         password |-> IF password = Missing THEN x.password
                      ELSE bcryptHash(password)] : x \in u}

(* ------------------------------ requests ------------------------------- *)
IdleReq ==
  [pc |-> "idle", route |-> "none", token |-> NoToken,
   name |-> Missing, email |-> Missing, password |-> Missing,
   id |-> 0, storeId |-> 0, admins |-> {},
   loggedIn |-> FALSE, user |-> NoUser, subject |-> NoUser,
   franchiseAdmins |-> {}, status |-> 0, message |-> "", resToken |-> NoToken,
   result |-> {}, late |-> FALSE, ran |-> FALSE, wrote |-> FALSE,
   factory |-> "none"]

NoTx == [stores |-> {}, roles |-> {}, franchises |-> {}]

Init ==
  /\ user = {[id |-> 1, name |-> DefaultAdmin.name, email |-> DefaultAdmin.email,
              password |-> bcryptHash(DefaultAdmin.password)]}
  /\ userRole = {[userId |-> 1, role |-> Role.Admin, objectId |-> 0]}
  /\ auth = {}
  /\ menu = {}
  /\ franchise = {}
  /\ store = {}
  /\ dinerOrder = {}
  /\ autoinc = [franchise |-> 0, store |-> 0]
  /\ now = 0
  /\ reqs = [r \in ReqIds |-> IdleReq]
  /\ last = IdleReq
  /\ nreq = 0
  /\ issued = {}
  /\ revoked = {}
  /\ tx = [r \in ReqIds |-> NoTx]

(* ------------------------- request pipeline ---------------------------- *)
ProtectedRoutesWithFranchiseDelete ==
  {"logout", "getMe", "updateUser", "deleteUser", "listUsers", "addMenuItem",
   "getOrders", "createOrder", "getUserFranchises", "createFranchise",
   "createStore", "deleteStore", "deleteFranchise"}

ProtectedRoutes ==
  {"logout", "getMe", "updateUser", "deleteUser", "listUsers", "addMenuItem",
   "getOrders", "createOrder", "getUserFranchises", "createFranchise",
   "createStore", "deleteStore"}
OpenRoutes == {"register", "login", "getMenu", "getFranchises", "deleteFranchise"}
Routes == ProtectedRoutes \cup OpenRoutes

BodyRoutes == {"register", "login", "updateUser"}

(* tokens a client can put in the Authorization header: none, one it was   *)
(* given, or one it made from a token it was given                         *)
Tamper(token) ==
  <<token[1], [token[2] EXCEPT !.roles = {[role |-> Role.Admin, objectId |-> 0]}],
    token[3]>>
Truncate(token) == <<token[1], token[2]>>
GivenTokens == {NoToken} \cup issued
ForgedTokens == {Tamper(t) : t \in issued} \cup {Truncate(t) : t \in issued}

Busy(route) == Cardinality({r \in ReqIds : reqs[r].route = route /\ reqs[r].pc # "idle"})

(* a request that has been answered leaves its slot; last is the request   *)
(* answered by the step just taken, with its response                      *)
Done(q, status, message) ==
  [q EXCEPT !.pc = "done", !.status = status, !.message = message]

Answered(q) == q.pc = "done"

Put(r, q) ==
  IF Answered(q)
  THEN reqs' = [reqs EXCEPT ![r] = IdleReq] /\ last' = q
  ELSE reqs' = [reqs EXCEPT ![r] = q] /\ last' = IdleReq

(* routes/authRouter.js *)
readAuthToken(q) == q.token

authenticateTokenAlways(u) == TRUE

authenticateToken(u) == u # NoUser

verifiedUserSkipsSessionCheck(q, a) ==
  LET token == readAuthToken(q)
  IN IF token # NoToken /\ jwtVerify(token, jwtSecret)
     THEN Claims(token) ELSE NoUser

verifiedUser(q, a) ==
  LET token == readAuthToken(q)
  IN IF token # NoToken /\ isLoggedIn(a, token) /\ jwtVerify(token, jwtSecret)
     THEN Claims(token) ELSE NoUser

(* variant: a failed verification is answered by the middleware itself *)
setAuthUserRejectsBadToken(q, a) ==
  LET u == verifiedUser(q, a)
      active == readAuthToken(q) # NoToken /\ isLoggedIn(a, readAuthToken(q))
  IN IF (active /\ u = NoUser) \/ (q.route \in ProtectedRoutes /\ ~authenticateToken(u))
     THEN Done([q EXCEPT !.user = u, !.loggedIn = active], 401, "unauthorized")
     ELSE [q EXCEPT !.pc = "handler", !.user = u, !.loggedIn = active, !.ran = TRUE]

setAuthUser(q, a) ==
  LET u == verifiedUser(q, a)
      active == readAuthToken(q) # NoToken /\ isLoggedIn(a, readAuthToken(q))
  IN IF q.route \in ProtectedRoutes /\ ~authenticateToken(u)
     THEN Done([q EXCEPT !.user = u, !.loggedIn = active], 401, "unauthorized")
     ELSE [q EXCEPT !.pc = "handler", !.user = u, !.loggedIn = active, !.ran = TRUE]

(* the values a client can send with a request to each route *)
NameInputs(route) ==
  CASE route \in {"register", "updateUser"} -> Names \cup {Missing}
    [] route = "createFranchise" -> FranchiseNames
    [] route = "createStore" -> StoreNames
    [] route = "addMenuItem" -> MenuTitles
    [] OTHER -> {Missing}
EmailInputs(route) ==
  CASE route = "register" -> Emails \cup {Missing}
    [] route \in {"login", "updateUser"} -> Emails
    [] OTHER -> {Missing}
PasswordInputs(route) ==
  IF route \in BodyRoutes THEN Passwords \cup {Missing} ELSE {Missing}
IdInputs(route) ==
  CASE route \in {"updateUser", "deleteUser", "getUserFranchises"} -> 1..MaxUsers
    [] route \in {"deleteFranchise", "createStore", "deleteStore"} -> 1..MaxFranchises
    [] OTHER -> {0}
StoreIdInputs(route) == IF route = "deleteStore" THEN 1..MaxStores ELSE {0}
AdminInputs(route) == IF route = "createFranchise" THEN SUBSET Emails ELSE {{}}
TokenInputs(route, tokens) == IF route \in {"register", "login"} THEN {NoToken} ELSE tokens

Receive(r, routes, tokens, budget) ==
  /\ reqs[r].pc = "idle"
  /\ \A x \in ReqIds : x < r => reqs[x].pc # "idle"
  /\ nreq < budget
  /\ \E route \in routes :
     \E token \in TokenInputs(route, tokens), name \in NameInputs(route),
        email \in EmailInputs(route), password \in PasswordInputs(route),
        id \in IdInputs(route), storeId \in StoreIdInputs(route),
        admins \in AdminInputs(route) :
       /\ route = "register" =>
            Cardinality(user) + Busy("register") < MaxUsers
       /\ route = "addMenuItem" => Cardinality(menu) + Busy("addMenuItem") < MaxMenu
       /\ route = "createOrder" => Cardinality(dinerOrder) + Busy("createOrder") < MaxOrders
       /\ route = "createFranchise" =>
            autoinc.franchise + Busy("createFranchise") < MaxFranchises
       /\ route = "createStore" => autoinc.store + Busy("createStore") < MaxStores
       /\ LET q == [IdleReq EXCEPT !.pc = "auth", !.route = route, !.token = token,
                            !.name = name, !.email = email, !.password = password,
                            !.id = id, !.storeId = storeId, !.admins = admins,
                            !.late = token \in revoked]
          IN Put(r, IF token = NoToken THEN setAuthUser(q, auth) ELSE q)
  /\ nreq' = nreq + 1
  /\ UNCHANGED <<tables, now, issued, revoked, tx>>

SetAuthUser(r) ==
  /\ reqs[r].pc = "auth"
  /\ Put(r, setAuthUser(reqs[r], auth))
  /\ UNCHANGED <<tables, now, nreq, issued, revoked, tx>>

Handling(r, route) == reqs[r].pc = "handler" /\ reqs[r].route = route

RegisterWithoutPasswordCheck(r) ==
  LET q == reqs[r]
      roles == {[role |-> Role.Diner, objectId |-> 0]}
      row == addUserRow(user, q.name, q.email, q.password)
  IN /\ Handling(r, "register")
     /\ IF q.name = Missing \/ q.email = Missing
        THEN /\ Put(r, Done(q, 400, "name, email, and password are required"))
             /\ UNCHANGED <<user, userRole>>
        ELSE /\ user' = user \cup {row}
             /\ userRole' = userRole \cup addUserRoles(row.id, roles)
             /\ Put(r, [q EXCEPT !.pc = "setAuth", !.wrote = TRUE,
                                 !.subject = [id |-> row.id, name |-> q.name,
                                              email |-> q.email, roles |-> roles]])
     /\ UNCHANGED <<auth, menu, franchise, store, dinerOrder, autoinc, now, nreq,
                    issued, revoked, tx>>

Register(r) ==
  LET q == reqs[r]
      roles == {[role |-> Role.Diner, objectId |-> 0]}
      row == addUserRow(user, q.name, q.email, q.password)
  IN /\ Handling(r, "register")
     /\ IF q.name = Missing \/ q.email = Missing \/ q.password = Missing
        THEN /\ Put(r, Done(q, 400, "name, email, and password are required"))
             /\ UNCHANGED <<user, userRole>>
        ELSE /\ user' = user \cup {row}
             /\ userRole' = userRole \cup addUserRoles(row.id, roles)
             /\ Put(r, [q EXCEPT !.pc = "setAuth", !.wrote = TRUE,
                                 !.subject = [id |-> row.id, name |-> q.name,
                                              email |-> q.email, roles |-> roles]])
     /\ UNCHANGED <<auth, menu, franchise, store, dinerOrder, autoinc, now, nreq,
                    issued, revoked, tx>>

Login(r) ==
  LET q == reqs[r]
  IN /\ Handling(r, "login")
     /\ Put(r, IF getUserFound(user, q.email, q.password)
               THEN [q EXCEPT !.pc = "setAuth",
                              !.subject = getUser(user, userRole, q.email)]
               ELSE Done(q, 404, "unknown user"))
     /\ UNCHANGED <<tables, now, nreq, issued, revoked, tx>>

setAuth(u, iat) == jwtSign(u, jwtSecret, iat)

(* variant: a plain INSERT, which fails on a signature already in the table *)
SetAuthInsertOnly(r) ==
  LET q == reqs[r]
      token == setAuth(q.subject, now)
  IN /\ q.pc = "setAuth"
     /\ IF isLoggedIn(auth, token)
        THEN auth' = auth /\ Put(r, Done(q, 500, "Duplicate entry"))
        ELSE /\ auth' = loginUser(auth, q.subject.id, token)
             /\ Put(r, [q EXCEPT !.pc = "respond", !.resToken = token,
                                 !.wrote = TRUE])
     /\ UNCHANGED <<user, userRole, menu, franchise, store, dinerOrder, autoinc, now,
                    nreq, issued, revoked, tx>>

SetAuth(r) ==
  LET q == reqs[r]
      token == setAuth(q.subject, now)
  IN /\ q.pc = "setAuth"
     /\ auth' = loginUser(auth, q.subject.id, token)
     /\ Put(r, [q EXCEPT !.pc = "respond", !.resToken = token, !.wrote = TRUE])
     /\ UNCHANGED <<user, userRole, menu, franchise, store, dinerOrder, autoinc, now,
                    nreq, issued, revoked, tx>>

(* res.json({ user, token }): from here on the client has the token *)
Respond(r) ==
  LET q == reqs[r]
  IN /\ q.pc = "respond"
     /\ issued' = issued \cup {q.resToken}
     /\ Put(r, Done(q, 200, "ok"))
     /\ UNCHANGED <<tables, now, nreq, revoked, tx>>

clearAuth(a, q) ==
  IF readAuthToken(q) # NoToken THEN logoutUser(a, readAuthToken(q)) ELSE a

(* the rows the DELETE of logoutUser removes *)
deletedAuthRows(a, token) == {row \in a : row.token = getTokenSignature(token)}

(* variant: a DELETE that must remove a row *)
LogoutFailsWhenAbsent(r) ==
  LET q == reqs[r]
  IN /\ Handling(r, "logout")
     /\ auth' = clearAuth(auth, q)
     /\ revoked' = revoked \cup {q.token}
     /\ Put(r, IF deletedAuthRows(auth, q.token) = {}
               THEN Done(q, 500, "no session")
               ELSE [Done(q, 200, "logout successful") EXCEPT
                       !.wrote = TRUE, !.result = deletedAuthRows(auth, q.token)])
     /\ UNCHANGED <<user, userRole, menu, franchise, store, dinerOrder, autoinc, now,
                    nreq, issued, tx>>

Logout(r) ==
  LET q == reqs[r]
  IN /\ Handling(r, "logout")
     /\ auth' = clearAuth(auth, q)
     /\ revoked' = revoked \cup {q.token}
     /\ Put(r, [Done(q, 200, "logout successful") EXCEPT
                  !.wrote = TRUE, !.result = deletedAuthRows(auth, q.token)])
     /\ UNCHANGED <<user, userRole, menu, franchise, store, dinerOrder, autoinc, now,
                    nreq, issued, tx>>

(* routes/userRouter.js *)
GetMe(r) ==
  /\ Handling(r, "getMe")
  /\ Put(r, Done(reqs[r], 200, "ok"))
  /\ UNCHANGED <<tables, now, nreq, issued, revoked, tx>>

UpdateUser(r) ==
  LET q == reqs[r]
      updated == updateUser(user, q.id, q.name, q.email, q.password)
  IN /\ Handling(r, "updateUser")
     /\ IF q.user.id # q.id /\ ~isRole(q.user, Role.Admin)
        THEN /\ Put(r, Done(q, 403, "unauthorized"))
             /\ user' = user
        ELSE /\ user' = updated
             /\ Put(r, IF getUserFound(updated, q.email, q.password)
                       THEN [q EXCEPT !.pc = "setAuth", !.wrote = TRUE,
                                      !.subject = getUser(updated, userRole, q.email)]
                       ELSE [Done(q, 404, "unknown user") EXCEPT !.wrote = TRUE])
     /\ UNCHANGED <<userRole, auth, menu, franchise, store, dinerOrder, autoinc,
                    now, nreq, issued, revoked, tx>>

DeleteUser(r) ==
  /\ Handling(r, "deleteUser")
  /\ Put(r, Done(reqs[r], 200, "not implemented"))
  /\ UNCHANGED <<tables, now, nreq, issued, revoked, tx>>

ListUsers(r) ==
  /\ Handling(r, "listUsers")
  /\ Put(r, Done(reqs[r], 200, "not implemented"))
  /\ UNCHANGED <<tables, now, nreq, issued, revoked, tx>>

(* routes/orderRouter.js *)
GetMenu(r) ==
  /\ Handling(r, "getMenu")
  /\ Put(r, [Done(reqs[r], 200, "ok") EXCEPT !.result = menu])
  /\ UNCHANGED <<tables, now, nreq, issued, revoked, tx>>

addMenuItem(m, title) == m \cup {[id |-> Max({x.id : x \in m}) + 1, title |-> title]}

AddMenuItem(r) ==
  LET q == reqs[r]
  IN /\ Handling(r, "addMenuItem")
     /\ IF ~isRole(q.user, Role.Admin)
        THEN /\ Put(r, Done(q, 403, "unable to add menu item"))
             /\ menu' = menu
        ELSE /\ menu' = addMenuItem(menu, q.name)
             /\ Put(r, [Done(q, 200, "ok") EXCEPT !.wrote = TRUE, !.result = menu'])
     /\ UNCHANGED <<user, userRole, auth, franchise, store, dinerOrder, autoinc,
                    now, nreq, issued, revoked, tx>>

getOrders(o, u) == {x \in o : x.dinerId = u.id}

GetOrders(r) ==
  /\ Handling(r, "getOrders")
  /\ Put(r, [Done(reqs[r], 200, "ok") EXCEPT !.result = getOrders(dinerOrder, reqs[r].user)])
  /\ UNCHANGED <<tables, now, nreq, issued, revoked, tx>>

(* addDinerOrder: the inserted row, with its AUTO_INCREMENT id *)
newDinerOrder(o, u) == [id |-> Max({x.id : x \in o}) + 1, dinerId |-> u.id]
addDinerOrder(o, u) == o \cup {newDinerOrder(o, u)}

CreateOrder(r) ==
  LET q == reqs[r]
  IN /\ Handling(r, "createOrder")
     /\ dinerOrder' = addDinerOrder(dinerOrder, q.user)
     /\ Put(r, [q EXCEPT !.pc = "factory", !.wrote = TRUE,
                         !.result = {newDinerOrder(dinerOrder, q.user)}])
     /\ UNCHANGED <<user, userRole, auth, menu, franchise, store, autoinc,
                    now, nreq, issued, revoked, tx>>

(* what the factory answers to the forwarded order: r.ok and its JSON body *)
FactoryAnswers ==
  {[ok |-> TRUE, reportUrl |-> "reportUrl", jwt |-> "factoryJwt"],
   [ok |-> FALSE, reportUrl |-> "reportUrl", jwt |-> "none"]}

FactoryAlwaysOk(r) ==
  LET q == reqs[r]
  IN /\ q.pc = "factory"
     /\ \E j \in FactoryAnswers :
          Put(r, [Done(q, 200, "ok") EXCEPT
                    !.factory = IF j.ok THEN "ok" ELSE "failed",
                    !.result = {[order |-> o, followLinkToEndChaos |-> j.reportUrl,
                                 jwt |-> j.jwt] : o \in q.result}])
     /\ UNCHANGED <<tables, now, nreq, issued, revoked, tx>>

Factory(r) ==
  LET q == reqs[r]
  IN /\ q.pc = "factory"
     /\ \E j \in FactoryAnswers :
          Put(r, IF j.ok
                 THEN [Done(q, 200, "ok") EXCEPT
                         !.factory = "ok",
                         !.result = {[order |-> o, followLinkToEndChaos |-> j.reportUrl,
                                      jwt |-> j.jwt] : o \in q.result}]
                 ELSE [Done(q, 500, "Failed to fulfill order at factory") EXCEPT
                         !.factory = "failed",
                         !.result = {[followLinkToEndChaos |-> j.reportUrl]}])
     /\ UNCHANGED <<tables, now, nreq, issued, revoked, tx>>

(* routes/franchiseRouter.js *)
franchiseAdmins(ur, franchiseId) ==
  {x.userId : x \in {y \in ur : y.objectId = franchiseId /\ y.role = Role.Franchisee}}

getUserFranchises(ur, f, userId) ==
  {x \in f : \E y \in ur : y.userId = userId /\ y.role = Role.Franchisee
                           /\ y.objectId = x.id}

GetFranchises(r) ==
  /\ Handling(r, "getFranchises")
  /\ Put(r, [Done(reqs[r], 200, "ok") EXCEPT !.result = franchise])
  /\ UNCHANGED <<tables, now, nreq, issued, revoked, tx>>

GetUserFranchisesWithoutCheck(r) ==
  LET q == reqs[r]
  IN /\ Handling(r, "getUserFranchises")
     /\ Put(r, [q EXCEPT !.pc = "userFranchises"])
     /\ UNCHANGED <<tables, now, nreq, issued, revoked, tx>>

GetUserFranchises(r) ==
  LET q == reqs[r]
  IN /\ Handling(r, "getUserFranchises")
     /\ Put(r, IF q.user.id = q.id \/ isRole(q.user, Role.Admin)
               THEN [q EXCEPT !.pc = "userFranchises"]
               ELSE [Done(q, 200, "ok") EXCEPT !.result = {}])
     /\ UNCHANGED <<tables, now, nreq, issued, revoked, tx>>

(* the await of DB.getUserFranchises(userId) *)
UserFranchisesRead(r) ==
  LET q == reqs[r]
  IN /\ q.pc = "userFranchises"
     /\ Put(r, [Done(q, 200, "ok") EXCEPT
                  !.result = getUserFranchises(userRole, franchise, q.id)])
     /\ UNCHANGED <<tables, now, nreq, issued, revoked, tx>>

userIdByEmail(u, email) == Min({x.id : x \in {y \in u : y.email = email}})

(* createFranchise verifies every admin email before it inserts anything *)
unknownAdmins(u, admins) == {e \in admins : \A x \in u : x.email # e}

(* createFranchise, first part: the email lookups and INSERT INTO          *)
(* franchise; the request keeps the ids it looked up and the insertId      *)
(* (first a variant: INSERT INTO franchise before the emails are verified) *)
CreateFranchiseInsertsFirst(r) ==
  LET q == reqs[r]
      unknown == unknownAdmins(user, q.admins)
      newId == autoinc.franchise + 1
  IN /\ Handling(r, "createFranchise")
     /\ IF ~isRole(q.user, Role.Admin)
        THEN /\ Put(r, Done(q, 403, "unable to create a franchise"))
             /\ UNCHANGED <<franchise, autoinc>>
        ELSE /\ franchise' = franchise \cup {[id |-> newId, name |-> q.name]}
             /\ autoinc' = [autoinc EXCEPT !.franchise = newId]
             /\ IF unknown # {}
                THEN \E e \in unknown :
                       Put(r, [Done(q, 404, "unknown user for franchise admin " \o e
                                             \o " provided") EXCEPT !.wrote = TRUE])
                ELSE Put(r, [q EXCEPT !.pc = "franchiseRoles", !.wrote = TRUE,
                                      !.id = newId,
                                      !.franchiseAdmins =
                                        {userIdByEmail(user, e) : e \in q.admins}])
     /\ UNCHANGED <<user, userRole, auth, menu, store, dinerOrder, now, nreq, issued,
                    revoked, tx>>

CreateFranchise(r) ==
  LET q == reqs[r]
      unknown == unknownAdmins(user, q.admins)
      newId == autoinc.franchise + 1
  IN /\ Handling(r, "createFranchise")
     /\ IF ~isRole(q.user, Role.Admin)
        THEN /\ Put(r, Done(q, 403, "unable to create a franchise"))
             /\ UNCHANGED <<franchise, autoinc>>
        ELSE IF unknown # {}
        THEN /\ \E e \in unknown :
                  Put(r, Done(q, 404, "unknown user for franchise admin " \o e
                                        \o " provided"))
             /\ UNCHANGED <<franchise, autoinc>>
        ELSE /\ franchise' = franchise \cup {[id |-> newId, name |-> q.name]}
             /\ autoinc' = [autoinc EXCEPT !.franchise = newId]
             /\ Put(r, [q EXCEPT !.pc = "franchiseRoles", !.wrote = TRUE,
                                 !.id = newId,
                                 !.franchiseAdmins =
                                   {userIdByEmail(user, e) : e \in q.admins}])
     /\ UNCHANGED <<user, userRole, auth, menu, store, dinerOrder, now, nreq, issued,
                    revoked, tx>>

(* createFranchise, second part: INSERT INTO userRole for every admin *)
CreateFranchiseRoles(r) ==
  LET q == reqs[r]
  IN /\ q.pc = "franchiseRoles"
     /\ userRole' = userRole \cup
          {[userId |-> id, role |-> Role.Franchisee, objectId |-> q.id] :
             id \in q.franchiseAdmins}
     /\ Put(r, Done(q, 200, "ok"))
     /\ UNCHANGED <<user, auth, menu, franchise, store, dinerOrder, autoinc, now,
                    nreq, issued, revoked, tx>>

(* deleteFranchise: three DELETE statements inside one transaction.  A     *)
(* statement of an open transaction changes nothing that other connections *)
(* read; tx holds what the transaction has deleted so far.                 *)
autocommitDelete(committed, rows) == committed \ rows

txDelete(committed, rows) == committed
txCommit(committed, rows) == committed \ rows

DeleteFranchiseStores(r) ==
  LET q == reqs[r]
      rows == {x \in store : x.franchiseId = q.id}
  IN /\ Handling(r, "deleteFranchise")
     /\ store' = txDelete(store, rows)
     /\ tx' = [tx EXCEPT ![r].stores = rows]
     /\ Put(r, [q EXCEPT !.pc = "txRoles"])
     /\ UNCHANGED <<user, userRole, auth, menu, franchise, dinerOrder, autoinc,
                    now, nreq, issued, revoked>>

DeleteFranchiseRoles(r) ==
  LET q == reqs[r]
      rows == {x \in userRole : x.objectId = q.id}
  IN /\ q.pc = "txRoles"
     /\ userRole' = txDelete(userRole, rows)
     /\ tx' = [tx EXCEPT ![r].roles = rows]
     /\ Put(r, [q EXCEPT !.pc = "txFranchise"])
     /\ UNCHANGED <<user, auth, menu, franchise, store, dinerOrder, autoinc,
                    now, nreq, issued, revoked>>

DeleteFranchiseRow(r) ==
  LET q == reqs[r]
      rows == {x \in franchise : x.id = q.id}
  IN /\ q.pc = "txFranchise"
     /\ franchise' = txDelete(franchise, rows)
     /\ tx' = [tx EXCEPT ![r].franchises = rows]
     /\ Put(r, [q EXCEPT !.pc = "commit"])
     /\ UNCHANGED <<user, userRole, auth, menu, store, dinerOrder, autoinc,
                    now, nreq, issued, revoked>>

DeleteFranchiseCommit(r) ==
  LET q == reqs[r]
  IN /\ q.pc = "commit"
     /\ store' = txCommit(store, tx[r].stores)
     /\ userRole' = txCommit(userRole, tx[r].roles)
     /\ franchise' = txCommit(franchise, tx[r].franchises)
     /\ tx' = [tx EXCEPT ![r] = NoTx]
     /\ Put(r, [Done(q, 200, "franchise deleted") EXCEPT !.wrote = TRUE])
     /\ UNCHANGED <<user, auth, menu, dinerOrder, autoinc, now, nreq, issued,
                    revoked>>

(* any statement, or the commit, may fail: the catch block rolls back *)
txRollback(committed, rows) == committed

DeleteFranchiseFail(r) ==
  LET q == reqs[r]
  IN /\ \/ Handling(r, "deleteFranchise")
        \/ q.pc \in {"txRoles", "txFranchise", "commit"}
     /\ store' = txRollback(store, tx[r].stores)
     /\ userRole' = txRollback(userRole, tx[r].roles)
     /\ franchise' = txRollback(franchise, tx[r].franchises)
     /\ tx' = [tx EXCEPT ![r] = NoTx]
     /\ Put(r, Done(q, 500, "unable to delete franchise"))
     /\ UNCHANGED <<user, auth, menu, dinerOrder, autoinc, now, nreq, issued,
                    revoked>>

StoreGetFranchise(r) ==
  LET q == reqs[r]
  IN /\ \/ Handling(r, "createStore")
        \/ Handling(r, "deleteStore")
     /\ Put(r, [q EXCEPT !.pc = "storeOp",
                         !.franchiseAdmins = franchiseAdmins(userRole, q.id)])
     /\ UNCHANGED <<tables, now, nreq, issued, revoked, tx>>

isAdminOrFranchiseHasAdmins(u, admins) == isRole(u, Role.Admin) \/ admins # {}

isFranchiseAdminOrAdmin(u, admins) == isRole(u, Role.Admin) \/ u.id \in admins

createStore(st, newId, franchiseId, name) ==
  st \cup {[id |-> newId, franchiseId |-> franchiseId, name |-> name]}

CreateStoreBeforeCheck(r) ==
  LET q == reqs[r]
      newId == autoinc.store + 1
  IN /\ q.pc = "storeOp" /\ q.route = "createStore"
     /\ store' = createStore(store, newId, q.id, q.name)
     /\ autoinc' = [autoinc EXCEPT !.store = newId]
     /\ Put(r, IF ~isFranchiseAdminOrAdmin(q.user, q.franchiseAdmins)
               THEN [Done(q, 403, "unable to create a store") EXCEPT !.wrote = TRUE]
               ELSE [Done(q, 200, "ok") EXCEPT !.wrote = TRUE])
     /\ UNCHANGED <<user, userRole, auth, menu, franchise, dinerOrder, now,
                    nreq, issued, revoked, tx>>

CreateStore(r) ==
  LET q == reqs[r]
      newId == autoinc.store + 1
  IN /\ q.pc = "storeOp" /\ q.route = "createStore"
     /\ IF ~isFranchiseAdminOrAdmin(q.user, q.franchiseAdmins)
        THEN /\ Put(r, Done(q, 403, "unable to create a store"))
             /\ UNCHANGED <<store, autoinc>>
        ELSE /\ store' = createStore(store, newId, q.id, q.name)
             /\ autoinc' = [autoinc EXCEPT !.store = newId]
             /\ Put(r, [Done(q, 200, "ok") EXCEPT !.wrote = TRUE])
     /\ UNCHANGED <<user, userRole, auth, menu, franchise, dinerOrder, now,
                    nreq, issued, revoked, tx>>

deleteStore(st, franchiseId, storeId) ==
  {x \in st : ~(x.franchiseId = franchiseId /\ x.id = storeId)}

DeleteStore(r) ==
  LET q == reqs[r]
  IN /\ q.pc = "storeOp" /\ q.route = "deleteStore"
     /\ IF ~isFranchiseAdminOrAdmin(q.user, q.franchiseAdmins)
        THEN /\ Put(r, Done(q, 403, "unable to delete a store"))
             /\ store' = store
        ELSE /\ store' = deleteStore(store, q.id, q.storeId)
             /\ Put(r, [Done(q, 200, "store deleted") EXCEPT !.wrote = TRUE])
     /\ UNCHANGED <<user, userRole, auth, menu, franchise, dinerOrder, autoinc,
                    now, nreq, issued, revoked, tx>>

(* the clock that jwt.sign reads for iat, in whole seconds *)
Tick ==
  /\ now < MaxClock
  /\ now' = now + 1
  /\ last' = IdleReq
  /\ UNCHANGED <<tables, reqs, nreq, issued, revoked, tx>>

AuthRoutes == {"register", "login", "logout", "getMe"}

NextAuth ==
  \/ \E r \in ReqIds : Receive(r, AuthRoutes, GivenTokens \cup ForgedTokens, MaxAuthRequests)
  \/ \E r \in ReqIds : SetAuthUser(r)
  \/ \E r \in ReqIds : Register(r)
  \/ \E r \in ReqIds : Login(r)
  \/ \E r \in ReqIds : SetAuth(r)
  \/ \E r \in ReqIds : Respond(r)
  \/ \E r \in ReqIds : Logout(r)
  \/ \E r \in ReqIds : GetMe(r)
  \/ Tick

SpecAuth == Init /\ [][NextAuth]_vars

UserRoutes == {"register", "login", "updateUser"}

NextUser ==
  \/ \E r \in ReqIds : Receive(r, UserRoutes, GivenTokens, MaxUserRequests)
  \/ \E r \in ReqIds : SetAuthUser(r)
  \/ \E r \in ReqIds : Register(r)
  \/ \E r \in ReqIds : Login(r)
  \/ \E r \in ReqIds : SetAuth(r)
  \/ \E r \in ReqIds : Respond(r)
  \/ \E r \in ReqIds : UpdateUser(r)

SpecUser == Init /\ [][NextUser]_vars

AdminRoutes == {"register", "login", "addMenuItem", "createFranchise"}

NextAdmin ==
  \/ \E r \in ReqIds : Receive(r, AdminRoutes, GivenTokens, MaxAdminRequests)
  \/ \E r \in ReqIds : SetAuthUser(r)
  \/ \E r \in ReqIds : Register(r)
  \/ \E r \in ReqIds : Login(r)
  \/ \E r \in ReqIds : SetAuth(r)
  \/ \E r \in ReqIds : Respond(r)
  \/ \E r \in ReqIds : AddMenuItem(r)
  \/ \E r \in ReqIds : CreateFranchise(r)
  \/ \E r \in ReqIds : CreateFranchiseRoles(r)

SpecAdmin == Init /\ [][NextAdmin]_vars

StoreRoutes == {"register", "login", "createFranchise", "createStore", "deleteStore"}

NextStore ==
  \/ \E r \in ReqIds : Receive(r, StoreRoutes, GivenTokens, MaxStoreRequests)
  \/ \E r \in ReqIds : SetAuthUser(r)
  \/ \E r \in ReqIds : Register(r)
  \/ \E r \in ReqIds : Login(r)
  \/ \E r \in ReqIds : SetAuth(r)
  \/ \E r \in ReqIds : Respond(r)
  \/ \E r \in ReqIds : CreateFranchise(r)
  \/ \E r \in ReqIds : CreateFranchiseRoles(r)
  \/ \E r \in ReqIds : StoreGetFranchise(r)
  \/ \E r \in ReqIds : CreateStore(r)
  \/ \E r \in ReqIds : DeleteStore(r)

SpecStore == Init /\ [][NextStore]_vars

DeleteRoutes == {"login", "createFranchise", "createStore", "deleteFranchise"}

NextDelete ==
  \/ \E r \in ReqIds : Receive(r, DeleteRoutes, GivenTokens, MaxDeleteRequests)
  \/ \E r \in ReqIds : SetAuthUser(r)
  \/ \E r \in ReqIds : Login(r)
  \/ \E r \in ReqIds : SetAuth(r)
  \/ \E r \in ReqIds : Respond(r)
  \/ \E r \in ReqIds : CreateFranchise(r)
  \/ \E r \in ReqIds : CreateFranchiseRoles(r)
  \/ \E r \in ReqIds : StoreGetFranchise(r)
  \/ \E r \in ReqIds : CreateStore(r)
  \/ \E r \in ReqIds : DeleteFranchiseStores(r)
  \/ \E r \in ReqIds : DeleteFranchiseRoles(r)
  \/ \E r \in ReqIds : DeleteFranchiseRow(r)
  \/ \E r \in ReqIds : DeleteFranchiseCommit(r)
  \/ \E r \in ReqIds : DeleteFranchiseFail(r)

SpecDelete == Init /\ [][NextDelete]_vars

SessionRoutes ==
  {"register", "login", "logout", "updateUser", "createFranchise", "createStore"}

NextSession ==
  \/ \E r \in ReqIds : Receive(r, SessionRoutes, GivenTokens, MaxSessionRequests)
  \/ \E r \in ReqIds : SetAuthUser(r)
  \/ \E r \in ReqIds : Register(r)
  \/ \E r \in ReqIds : Login(r)
  \/ \E r \in ReqIds : SetAuth(r)
  \/ \E r \in ReqIds : Respond(r)
  \/ \E r \in ReqIds : Logout(r)
  \/ \E r \in ReqIds : UpdateUser(r)
  \/ \E r \in ReqIds : CreateFranchise(r)
  \/ \E r \in ReqIds : CreateFranchiseRoles(r)
  \/ \E r \in ReqIds : StoreGetFranchise(r)
  \/ \E r \in ReqIds : CreateStore(r)
  \/ Tick

SpecSession == Init /\ [][NextSession]_vars

OrderRoutes == {"register", "login", "createOrder", "getOrders"}

NextOrder ==
  \/ \E r \in ReqIds : Receive(r, OrderRoutes, GivenTokens, MaxOrderRequests)
  \/ \E r \in ReqIds : SetAuthUser(r)
  \/ \E r \in ReqIds : Register(r)
  \/ \E r \in ReqIds : Login(r)
  \/ \E r \in ReqIds : SetAuth(r)
  \/ \E r \in ReqIds : Respond(r)
  \/ \E r \in ReqIds : CreateOrder(r)
  \/ \E r \in ReqIds : Factory(r)
  \/ \E r \in ReqIds : GetOrders(r)

SpecOrder == Init /\ [][NextOrder]_vars

FranchiseReadRoutes == {"register", "login", "createFranchise", "getUserFranchises"}

NextFranchiseRead ==
  \/ \E r \in ReqIds : Receive(r, FranchiseReadRoutes, GivenTokens,
                               MaxFranchiseReadRequests)
  \/ \E r \in ReqIds : SetAuthUser(r)
  \/ \E r \in ReqIds : Register(r)
  \/ \E r \in ReqIds : Login(r)
  \/ \E r \in ReqIds : SetAuth(r)
  \/ \E r \in ReqIds : Respond(r)
  \/ \E r \in ReqIds : CreateFranchise(r)
  \/ \E r \in ReqIds : CreateFranchiseRoles(r)
  \/ \E r \in ReqIds : GetUserFranchises(r)
  \/ \E r \in ReqIds : UserFranchisesRead(r)

SpecFranchiseRead == Init /\ [][NextFranchiseRead]_vars

RevokeRoutes == {"login", "logout"}

NextRevoke ==
  \/ \E r \in ReqIds : Receive(r, RevokeRoutes, GivenTokens, MaxRevokeRequests)
  \/ \E r \in ReqIds : SetAuthUser(r)
  \/ \E r \in ReqIds : Login(r)
  \/ \E r \in ReqIds : SetAuth(r)
  \/ \E r \in ReqIds : Respond(r)
  \/ \E r \in ReqIds : Logout(r)

SpecRevoke == Init /\ [][NextRevoke]_vars

MiddlewareRoutes == {"register", "login", "logout", "getMe", "getMenu"}

NextMiddleware ==
  \/ \E r \in ReqIds : Receive(r, MiddlewareRoutes, GivenTokens \cup ForgedTokens,
                               MaxMiddlewareRequests)
  \/ \E r \in ReqIds : SetAuthUser(r)
  \/ \E r \in ReqIds : Register(r)
  \/ \E r \in ReqIds : Login(r)
  \/ \E r \in ReqIds : SetAuth(r)
  \/ \E r \in ReqIds : Respond(r)
  \/ \E r \in ReqIds : Logout(r)
  \/ \E r \in ReqIds : GetMe(r)
  \/ \E r \in ReqIds : GetMenu(r)

SpecMiddleware == Init /\ [][NextMiddleware]_vars

(* DB.getTokenSignature called on its own, for every short token string *)
InitSignature ==
  /\ user = {[id |-> 1, name |-> DefaultAdmin.name, email |-> DefaultAdmin.email,
              password |-> bcryptHash(DefaultAdmin.password)]}
  /\ userRole = {[userId |-> 1, role |-> Role.Admin, objectId |-> 0]}
  /\ auth = {}
  /\ menu = {}
  /\ franchise = {}
  /\ store = {}
  /\ dinerOrder = {}
  /\ autoinc = [franchise |-> 0, store |-> 0]
  /\ now = 0
  /\ \E str \in TokenStrings :
       reqs = [r \in ReqIds |->
                 IF r = 1 THEN [IdleReq EXCEPT !.pc = "signature", !.token = str]
                 ELSE IdleReq]
  /\ last = IdleReq
  /\ nreq = 0
  /\ issued = {}
  /\ revoked = {}
  /\ tx = [r \in ReqIds |-> NoTx]

GetTokenSignature(r) ==
  LET q == reqs[r]
  IN /\ q.pc = "signature"
     /\ Put(r, [Done(q, 0, "") EXCEPT !.result = {getTokenSignature(split(q.token))}])
     /\ UNCHANGED <<tables, now, nreq, issued, revoked, tx>>

NextSignature == \E r \in ReqIds : GetTokenSignature(r)

SpecSignature == InitSignature /\ [][NextSignature]_vars

LogoutRaceRoutes == {"login", "logout", "addMenuItem"}

NextLogoutRace ==
  \/ \E r \in ReqIds : Receive(r, LogoutRaceRoutes, GivenTokens, MaxLogoutRaceRequests)
  \/ \E r \in ReqIds : SetAuthUser(r)
  \/ \E r \in ReqIds : Login(r)
  \/ \E r \in ReqIds : SetAuth(r)
  \/ \E r \in ReqIds : Respond(r)
  \/ \E r \in ReqIds : Logout(r)
  \/ \E r \in ReqIds : AddMenuItem(r)

SpecLogoutRace == Init /\ [][NextLogoutRace]_vars

Next ==
  \/ \E r \in ReqIds : Receive(r, Routes, GivenTokens \cup ForgedTokens, MaxRequests)
  \/ \E r \in ReqIds : SetAuthUser(r)
  \/ \E r \in ReqIds : Register(r)
  \/ \E r \in ReqIds : Login(r)
  \/ \E r \in ReqIds : SetAuth(r)
  \/ \E r \in ReqIds : Respond(r)
  \/ \E r \in ReqIds : Logout(r)
  \/ \E r \in ReqIds : GetMe(r)
  \/ \E r \in ReqIds : UpdateUser(r)
  \/ \E r \in ReqIds : DeleteUser(r)
  \/ \E r \in ReqIds : ListUsers(r)
  \/ \E r \in ReqIds : GetMenu(r)
  \/ \E r \in ReqIds : AddMenuItem(r)
  \/ \E r \in ReqIds : GetOrders(r)
  \/ \E r \in ReqIds : CreateOrder(r)
  \/ \E r \in ReqIds : Factory(r)
  \/ \E r \in ReqIds : GetFranchises(r)
  \/ \E r \in ReqIds : GetUserFranchises(r)
  \/ \E r \in ReqIds : UserFranchisesRead(r)
  \/ \E r \in ReqIds : CreateFranchise(r)
  \/ \E r \in ReqIds : CreateFranchiseRoles(r)
  \/ \E r \in ReqIds : DeleteFranchiseStores(r)
  \/ \E r \in ReqIds : DeleteFranchiseRoles(r)
  \/ \E r \in ReqIds : DeleteFranchiseRow(r)
  \/ \E r \in ReqIds : DeleteFranchiseCommit(r)
  \/ \E r \in ReqIds : DeleteFranchiseFail(r)
  \/ \E r \in ReqIds : StoreGetFranchise(r)
  \/ \E r \in ReqIds : CreateStore(r)
  \/ \E r \in ReqIds : DeleteStore(r)

Spec == Init /\ [][Next]_vars


(* --------------------------- properties -------------------------------- *)
(* the request of slot r as it is after the step: still in its slot, or    *)
(* answered and moved to last                                              *)
After(r) == IF reqs'[r].pc = "idle" THEN last' ELSE reqs'[r]
Moves(r) == reqs[r].pc # "idle" /\ reqs'[r] # reqs[r]
SigActive(token, a) == Len(token) >= 3 /\ \E row \in a : row.token = token[3]

(* C1: the step in which a request leaves the authorization middleware     *)
(* attaches a principal exactly when the request carries a token that the  *)
(* service signed and whose third segment is in the active-session set at  *)
(* that moment; a request without a token never gets a principal.          *)
C1_PrincipalIffSignedAndActiveStep ==
  /\ \A r \in ReqIds :
       reqs[r].pc = "auth" /\ Moves(r) =>
         /\ (After(r).user # NoUser) =
              (reqs[r].token \in issued /\ SigActive(reqs[r].token, auth))
         /\ After(r).user # NoUser => After(r).user = Claims(reqs[r].token)
         /\ (After(r).pc = "handler") =
              (After(r).user # NoUser \/ reqs[r].route \notin ProtectedRoutes)
  /\ nreq' # nreq =>
       \A r \in ReqIds :
         reqs[r].pc = "idle" /\ reqs'[r].pc = "handler" => reqs'[r].user = NoUser
C1_PrincipalIffSignedAndActive == [][C1_PrincipalIffSignedAndActiveStep]_vars

(* a request holds a principal while another, bearing a token whose        *)
(* signature segment was active but whose payload was altered, got 401     *)
C1_Witness ==
  /\ \E r \in ReqIds : reqs[r].pc = "handler" /\ reqs[r].user # NoUser
  /\ last.pc = "done" /\ last.status = 401 /\ last.loggedIn
  /\ last.token \notin issued

(* C2: once a logout bearing token T has been answered 200, T's signature  *)
(* is never in the active-session set, and every request bearing T that is *)
(* received afterwards on a protected route is answered 401.               *)
C2_RevokedTokenRejected ==
  /\ \A t \in revoked : ~SigActive(t, auth)
  /\ last.pc = "done" /\ last.late /\ last.route \in ProtectedRoutes
       => last.status = 401

(* C3: a token whose signature logout has removed from the active-session  *)
(* set is not made active again by any later step, and no token returned   *)
(* by a registration or login has the signature of a revoked token.        *)
C3_RevokedIsTerminalStep ==
  /\ \A t \in revoked : ~SigActive(t, auth) => ~SigActive(t, auth')
  /\ last'.pc = "done" /\ last'.resToken # NoToken
       => \A t \in revoked : t[3] # last'.resToken[3]
C3_RevokedIsTerminal == [][C3_RevokedIsTerminalStep]_vars

(* C4: on each protected route a request without a principal is answered   *)
(* 401 and never enters the handler body.                                  *)
C4Routes ==
  {"logout", "getMe", "updateUser", "deleteUser", "listUsers", "addMenuItem",
   "getOrders", "createOrder", "getUserFranchises", "createFranchise",
   "createStore", "deleteStore"}
C4_AuthenticationGate ==
  \A q \in {reqs[r] : r \in ReqIds} \cup {last} :
    q.route \in C4Routes /\ q.pc \notin {"idle", "auth"} /\ q.user = NoUser
      => q.pc = "done" /\ q.status = 401 /\ ~q.ran /\ ~q.wrote

(* a protected route has just answered 401 to a request without principal *)
C4_Witness ==
  /\ last.pc = "done" /\ last.route \in C4Routes
  /\ last.user = NoUser /\ last.status = 401

HasAdmin(u) == \E ro \in u.roles : ro.role = "admin"

(* C5: an authenticated PUT /user/U is answered 200 exactly when the       *)
(* principal's id is U or the principal has the Admin role, and 403        *)
(* 'unauthorized' otherwise.                                               *)
C5_SelfOrAdmin ==
  last.pc = "done" /\ last.route = "updateUser" /\ last.user # NoUser =>
    IF last.user.id = last.id \/ HasAdmin(last.user)
    THEN last.status = 200
    ELSE last.status = 403 /\ last.message = "unauthorized"

(* C6: POST /franchise/F/store and DELETE /franchise/F/store/:storeId read *)
(* F's admin list from the role assignments and then create or delete the  *)
(* store exactly when the principal has the Admin role or its id is in the *)
(* list read; otherwise they answer 403 and leave the stores unchanged.    *)
C6_FranchiseAdminOrAdminStep ==
  \A r \in ReqIds :
    Moves(r) /\ reqs[r].route \in {"createStore", "deleteStore"} =>
      LET q == reqs[r]
          permitted == HasAdmin(q.user) \/ q.user.id \in q.franchiseAdmins
      IN /\ q.pc = "handler" =>
              /\ store' = store
              /\ After(r).franchiseAdmins =
                   {x.userId : x \in {y \in userRole : y.role = "franchisee"
                                                      /\ y.objectId = q.id}}
         /\ q.pc = "storeOp" /\ permitted =>
              /\ After(r).status = 200
              /\ q.route = "createStore" =>
                   /\ store \subseteq store'
                   /\ \E x \in store' \ store :
                        /\ x.franchiseId = q.id /\ x.name = q.name
                        /\ store' = store \cup {x}
              /\ q.route = "deleteStore" =>
                   store' = {x \in store : ~(x.id = q.storeId /\ x.franchiseId = q.id)}
         /\ q.pc = "storeOp" /\ ~permitted =>
              /\ After(r).status = 403
              /\ store' = store
C6_FranchiseAdminOrAdmin == [][C6_FranchiseAdminOrAdminStep]_vars

(* a franchise admin who is not a global Admin has created a store *)
C6_Witness ==
  /\ last.pc = "done" /\ last.route = "createStore" /\ last.status = 200
  /\ ~HasAdmin(last.user)
  /\ \E x \in store : x.franchiseId = last.id

(* C7: an authenticated PUT /order/menu or POST /franchise performs its    *)
(* mutation and answers 200 exactly when the principal has the Admin role; *)
(* any other principal gets 403 and nothing changes.                       *)
C7_AdminOnly ==
  last.pc = "done" /\ last.route \in {"addMenuItem", "createFranchise"}
    /\ last.user # NoUser =>
    IF HasAdmin(last.user)
    THEN last.status = 200 /\ last.wrote
    ELSE last.status = 403 /\ ~last.wrote

(* C7 amended: a principal without Admin gets 403 with the route's message *)
(* and menu, franchises and role assignments stay as they are; an Admin's  *)
(* PUT /order/menu adds the item and returns a menu containing it; an      *)
(* Admin's POST /franchise adds the franchise and answers 200 unless an    *)
(* admin email matches no user, and then it answers 404 and adds nothing.  *)
C7_AdminOnlyAmendedStep ==
  \A r \in ReqIds :
    /\ Moves(r) /\ reqs[r].pc = "franchiseRoles" => After(r).status = 200
    /\ Moves(r) /\ reqs[r].pc = "handler"
      /\ reqs[r].route \in {"addMenuItem", "createFranchise"} =>
      LET q == reqs[r]
          known == \A e \in q.admins : \E x \in user : x.email = e
      IN /\ ~HasAdmin(q.user) =>
              /\ After(r).status = 403
              /\ After(r).message = IF q.route = "addMenuItem"
                                    THEN "unable to add menu item"
                                    ELSE "unable to create a franchise"
              /\ menu' = menu /\ franchise' = franchise /\ userRole' = userRole
         /\ HasAdmin(q.user) /\ q.route = "addMenuItem" =>
              /\ After(r).status = 200
              /\ \E x \in menu' \ menu : x.title = q.name /\ x \in After(r).result
         /\ HasAdmin(q.user) /\ q.route = "createFranchise" /\ known =>
              /\ After(r).pc = "franchiseRoles"
              /\ \E x \in franchise' \ franchise : x.name = q.name
         /\ HasAdmin(q.user) /\ q.route = "createFranchise" /\ ~known =>
              /\ After(r).status = 404
              /\ franchise' = franchise /\ userRole' = userRole
C7_AdminOnlyAmended == [][C7_AdminOnlyAmendedStep]_vars

(* an Admin has added a menu item and got the menu with the item back *)
C7_Witness ==
  /\ last.pc = "done" /\ last.route = "addMenuItem" /\ last.status = 200
  /\ HasAdmin(last.user)
  /\ \E x \in menu : x.title = last.name /\ x \in last.result

(* C8: the step that answers a request 401 or 403 changes no table, and no *)
(* earlier step of that request has changed one.                           *)
C8_FailFastStep ==
  /\ last'.pc = "done" /\ last'.status \in {401, 403} =>
       /\ tables' = tables
       /\ ~last'.wrote
  /\ tables' # tables => \E r \in ReqIds : Moves(r) /\ After(r).wrote
C8_FailFast == [][C8_FailFastStep]_vars

(* a request has been rejected 403 by a permission policy while the        *)
(* tables hold data that an earlier request has written                    *)
C8_Witness ==
  /\ last.pc = "done" /\ last.status = 403 /\ last.user # NoUser
  /\ auth # {}

(* C9: a login whose email matches no user and a login whose password      *)
(* does not match the hash of the user with that email are both answered   *)
(* 404 'unknown user' and activate no token.                               *)
C9_LoginErrorCollapse ==
  last.pc = "done" /\ last.route = "login"
    /\ (\/ \A x \in user : x.email # last.email
        \/ \A x \in user : x.email = last.email
                             => x.password # bcryptHash(last.password)) =>
    /\ last.status = 404 /\ last.message = "unknown user"
    /\ last.resToken = NoToken /\ ~last.wrote

(* C10: a step of deleteFranchise(F) changes no table unless it is the     *)
(* commit, which removes together every store, role assignment and         *)
(* franchise row of F that the statements deleted and answers 200; a       *)
(* failure answers 500 'unable to delete franchise' with the tables as     *)
(* they were.                                                              *)
C10_DeleteFranchiseAtomicStep ==
  \A r \in ReqIds :
    Moves(r) /\ reqs[r].route = "deleteFranchise" =>
      LET q == reqs[r]
          a == After(r)
      IN \/ /\ a.status = 200 /\ a.message = "franchise deleted"
            /\ q.pc = "commit"
            /\ store' = store \ tx[r].stores
            /\ userRole' = userRole \ tx[r].roles
            /\ franchise' = franchise \ tx[r].franchises
         \/ /\ a.status = 500 /\ a.message = "unable to delete franchise"
            /\ store' = store /\ userRole' = userRole /\ franchise' = franchise
         \/ /\ a.status = 0
            /\ store' = store /\ userRole' = userRole /\ franchise' = franchise
            /\ q.pc = "handler" => tx'[r].stores = {x \in store : x.franchiseId = q.id}
            /\ q.pc = "txRoles" => tx'[r].roles = {x \in userRole : x.objectId = q.id}
            /\ q.pc = "txFranchise" => tx'[r].franchises = {x \in franchise : x.id = q.id}
C10_DeleteFranchiseAtomic == [][C10_DeleteFranchiseAtomicStep]_vars

(* a deleteFranchise has failed with 500 and the franchise still has its   *)
(* row, a store and a franchise-admin role assignment                      *)
C10_Witness ==
  /\ last.pc = "done" /\ last.route = "deleteFranchise" /\ last.status = 500
  /\ \E x \in franchise : x.id = last.id
  /\ \E x \in store : x.franchiseId = last.id
  /\ \E x \in userRole : x.objectId = last.id

(* C11: createFranchise with an admin list in which some email matches no  *)
(* user answers 404 'unknown user for franchise admin <email> provided'    *)
(* for such an email and adds no franchise row and no role assignment,     *)
(* whether or not other emails of the list match users.                    *)
C11_UnknownFranchiseAdminStep ==
  \A r \in ReqIds :
    LET q == reqs[r]
        missing == {e \in q.admins : ~\E x \in user : x.email = e}
    IN Moves(r) /\ q.pc = "handler" /\ q.route = "createFranchise"
         /\ HasAdmin(q.user) /\ missing # {} =>
         /\ After(r).status = 404
         /\ \E e \in missing :
              After(r).message = "unknown user for franchise admin " \o e \o " provided"
         /\ franchise' = franchise
         /\ userRole' = userRole
         /\ autoinc' = autoinc
C11_UnknownFranchiseAdmin == [][C11_UnknownFranchiseAdminStep]_vars

(* a franchise with one known and one unknown admin email was refused *)
C11_Witness ==
  /\ last.pc = "done" /\ last.route = "createFranchise" /\ last.status = 404
  /\ \E e \in last.admins : \E x \in user : x.email = e
  /\ \E e \in last.admins : \A x \in user : x.email # e
  /\ franchise = {}

(* C12: a DELETE /franchise/:franchiseId request goes to deleteFranchise   *)
(* whether or not it has a principal and whatever the principal's roles:   *)
(* it is never answered by the authentication gate or a permission check,  *)
(* and its answer is 200 'franchise deleted' from the commit or the 500 of *)
(* a failed deletion.                                                      *)
C12_FranchiseDeleteUncheckedStep ==
  /\ last'.pc = "done" /\ last'.route = "deleteFranchise" =>
       \/ /\ last'.status = 200 /\ last'.message = "franchise deleted"
          /\ \E r \in ReqIds : reqs[r].pc = "commit" /\ Moves(r)
       \/ /\ last'.status = 500 /\ last'.message = "unable to delete franchise"
          /\ \E r \in ReqIds :
               reqs[r].pc \in {"handler", "txRoles", "txFranchise", "commit"}
               /\ Moves(r)
  /\ \A r \in ReqIds :
       /\ reqs[r].pc = "idle" /\ reqs'[r].pc # "idle"
            /\ reqs'[r].route = "deleteFranchise" =>
            reqs'[r].pc = IF reqs'[r].token = NoToken THEN "handler" ELSE "auth"
       /\ Moves(r) /\ reqs[r].route = "deleteFranchise" /\ reqs[r].pc = "auth" =>
            reqs'[r].pc = "handler"
       /\ Moves(r) /\ reqs[r].route = "deleteFranchise" /\ reqs[r].pc = "handler" =>
            \/ reqs'[r].pc = "txRoles"
            \/ last'.pc = "done" /\ last'.status = 500
C12_FranchiseDeleteUnchecked == [][C12_FranchiseDeleteUncheckedStep]_vars

(* a principal with only the diner role got 200 'franchise deleted' *)
C12_Witness ==
  /\ last.pc = "done" /\ last.route = "deleteFranchise" /\ last.status = 200
  /\ last.user # NoUser /\ ~HasAdmin(last.user)

(* C13: when a registration or a login is answered 200, the token of the   *)
(* response has its signature in the active-session set under the id of    *)
(* the returned user; a signature enters the set only by the loginUser     *)
(* call of setAuth.                                                        *)
C13_IssueThenActivateStep ==
  /\ last'.pc = "done" /\ last'.route \in {"register", "login"}
       /\ last'.status = 200 =>
       /\ last'.resToken # NoToken
       /\ [token |-> last'.resToken[3], userId |-> last'.subject.id] \in auth'
  /\ \A row \in auth' \ auth :
       \E r \in ReqIds :
         /\ reqs[r].pc = "setAuth" /\ Moves(r)
         /\ row = [token |-> reqs'[r].resToken[3], userId |-> reqs[r].subject.id]
C13_IssueThenActivate == [][C13_IssueThenActivateStep]_vars

(* C14: a registration whose name, email or password is missing is         *)
(* answered 400 'name, email, and password are required'; it adds no user  *)
(* and no role row, and no token is signed for it or activated.            *)
C14_RegisterRequiresFieldsStep ==
  \A r \in ReqIds :
    LET q == reqs[r]
    IN Moves(r) /\ q.pc = "handler" /\ q.route = "register"
         /\ (q.name = Missing \/ q.email = Missing \/ q.password = Missing) =>
         /\ After(r).pc = "done"
         /\ After(r).status = 400
         /\ After(r).message = "name, email, and password are required"
         /\ After(r).resToken = NoToken
         /\ user' = user /\ userRole' = userRole
         /\ auth' = auth /\ issued' = issued
C14_RegisterRequiresFields == [][C14_RegisterRequiresFieldsStep]_vars

(* a registration with name and email but without password got the 400 *)
C14_Witness ==
  /\ last.pc = "done" /\ last.route = "register" /\ last.status = 400
  /\ last.name # Missing /\ last.email # Missing /\ last.password = Missing
  /\ \A x \in user : x.email # last.email

(* C15: an active-session row leaves the active-session set, or changes,   *)
(* only in the step of a logout whose token has the row's signature;       *)
(* registrations, logins, profile updates, franchise and store operations, *)
(* logouts with other tokens and the passing of time leave it as it is.    *)
C15_OnlyLogoutInvalidatesStep ==
  \A row \in auth :
    row \notin auth' =>
      \E r \in ReqIds :
        /\ reqs[r].pc = "handler" /\ reqs[r].route = "logout" /\ Moves(r)
        /\ Len(reqs[r].token) = 3 /\ reqs[r].token[3] = row.token
        /\ last'.pc = "done" /\ last'.status = 200
C16_UpdateReissues ==
  last.pc = "done" /\ last.route = "updateUser" /\ last.user # NoUser
    /\ (last.user.id = last.id \/ HasAdmin(last.user))
    /\ last.name # Missing /\ last.email # Missing /\ last.password # Missing
    /\ (\E x \in user : x.id = last.id) =>
    /\ last.status = 200
    /\ last.subject.id = last.id
    /\ last.subject.name = last.name /\ last.subject.email = last.email
    /\ last.resToken # NoToken
    /\ [token |-> last.resToken[3], userId |-> last.id] \in auth
    /\ Claims(last.resToken) = last.subject
    /\ getUserFound(user, last.email, last.password)

(* C17: an authenticated POST /order whose order was stored is answered,   *)
(* when the factory answers with success, 200 with the stored order and    *)
(* its id, the factory's report URL and the factory's jwt, and, when the   *)
(* factory answers with non-success, 500 'Failed to fulfill order at       *)
(* factory'.                                                               *)
C17_OrderFulfilmentStep ==
  \A r \in ReqIds :
    LET q == reqs[r]
        a == After(r)
    IN Moves(r) /\ q.pc = "factory" =>
         /\ a.pc = "done" /\ a.factory \in {"ok", "failed"}
         /\ a.factory = "ok" =>
              /\ a.status = 200
              /\ \E o \in dinerOrder' :
                   /\ o.dinerId = q.user.id /\ o.id > 0
                   /\ a.result = {[order |-> o, followLinkToEndChaos |-> "reportUrl",
                                   jwt |-> "factoryJwt"]}
         /\ a.factory = "failed" =>
              /\ a.status = 500
              /\ a.message = "Failed to fulfill order at factory"
C17_OrderFulfilment == [][C17_OrderFulfilmentStep]_vars

(* an order of a diner was answered 200 with the stored order *)
C17_Witness ==
  /\ last.pc = "done" /\ last.route = "createOrder" /\ last.status = 200
  /\ ~HasAdmin(last.user)
  /\ \E o \in dinerOrder : o.dinerId = last.user.id /\ \E x \in last.result : x.order = o

(* C18: GET /franchise/:userId calls getUserFranchises and returns that    *)
(* user's franchises exactly when the requester's id is :userId or the     *)
(* requester has the Admin role; for every other authenticated requester   *)
(* it answers 200 with an empty list without calling getUserFranchises.    *)
C18_UserFranchisesSelfOrAdminStep ==
  \A r \in ReqIds :
    LET q == reqs[r]
        a == After(r)
        permitted == q.user.id = q.id \/ HasAdmin(q.user)
    IN Moves(r) /\ q.route = "getUserFranchises" =>
         /\ q.pc = "handler" /\ permitted => a.pc = "userFranchises"
         /\ q.pc = "handler" /\ ~permitted =>
              a.pc = "done" /\ a.status = 200 /\ a.result = {}
         /\ q.pc = "userFranchises" =>
              /\ permitted
              /\ a.pc = "done" /\ a.status = 200
              /\ a.result =
                   {f \in franchise :
                      \E y \in userRole : /\ y.userId = q.id /\ y.role = "franchisee"
                                          /\ y.objectId = f.id}
C18_UserFranchisesSelfOrAdmin == [][C18_UserFranchisesSelfOrAdminStep]_vars

(* a diner asked for the franchises of another user who has one and got    *)
(* an empty list                                                           *)
C18_Witness ==
  /\ last.pc = "done" /\ last.route = "getUserFranchises" /\ last.status = 200
  /\ last.user # NoUser /\ last.user.id # last.id /\ ~HasAdmin(last.user)
  /\ last.result = {}
  /\ \E f \in franchise :
       \E y \in userRole : y.userId = last.id /\ y.role = "franchisee"
                           /\ y.objectId = f.id

(* C19: addUser with an email that already belongs to a user creates no    *)
(* second user, so the user table holds at most one row per email after    *)
(* any sequence of addUser calls.                                          *)
C19_OneUserPerEmail ==
  \A x \in user : \A y \in user : x.email = y.email => x.id = y.id

(* C20: activating a token (loginUser) is an idempotent upsert: whether or *)
(* not the signature is already active, the call raises no error, leaves   *)
(* exactly one auth row for the signature, owned by the user id of the     *)
(* call, leaves the rows of other signatures alone, and the token is       *)
(* active afterwards.                                                      *)
C20_ActivateIdempotentStep ==
  \A r \in ReqIds :
    LET q == reqs[r]
        token == setAuth(q.subject, now)
        sig == getTokenSignature(token)
    IN Moves(r) /\ q.pc = "setAuth" =>
         /\ reqs'[r].pc = "respond" /\ reqs'[r].resToken = token
         /\ {row \in auth' : row.token = sig} = {[token |-> sig, userId |-> q.subject.id]}
         /\ {row \in auth' : row.token # sig} = {row \in auth : row.token # sig}
         /\ isLoggedIn(auth', token)
C21_RevokeIdempotentStep ==
  \A r \in ReqIds :
    LET q == reqs[r]
        a == After(r)
        sig == getTokenSignature(q.token)
    IN Moves(r) /\ Handling(r, "logout") =>
         /\ a.pc = "done" /\ a.status = 200 /\ a.message = "logout successful"
         /\ auth' = {row \in auth : row.token # sig}
         /\ (\A row \in auth : row.token # sig) => auth' = auth
         /\ logoutUser(auth', q.token) = auth'
C21_RevokeIdempotent == [][C21_RevokeIdempotentStep]_vars

(* a logout whose DELETE found no row (the token had been revoked by a     *)
(* concurrent logout) was answered 200                                     *)
C21_Witness ==
  /\ last.pc = "done" /\ last.route = "logout" /\ last.status = 200
  /\ last.token \in revoked
  /\ last.result = {}

(* C22: the authorization middleware never rejects a request.  Whatever    *)
(* token a request carries (none, malformed, inactive, active with a bad   *)
(* signature, valid), the step in which it leaves setAuthUser changes no   *)
(* table and passes it on with the principal attached or absent; a failed  *)
(* verification leaves the principal absent.  The only request answered in *)
(* that step is one to a route guarded by authenticateToken that has no    *)
(* principal, which gets that guard's 401; a request to an unguarded route *)
(* always reaches its handler.                                             *)
LeavesMiddleware(r) ==
  \/ reqs[r].pc = "auth" /\ Moves(r)
  \/ /\ reqs[r].pc = "idle" /\ nreq' = nreq + 1
     /\ \A x \in ReqIds : x < r => reqs[x].pc # "idle"
     /\ After(r).token = NoToken
C22_MiddlewareNeverRejectsStep ==
  \A r \in ReqIds :
    LET a == After(r)
    IN LeavesMiddleware(r) =>
         /\ tables' = tables
         /\ a.user = NoUser \/ (Len(a.token) = 3 /\ a.user = Claims(a.token))
         /\ (a.token = NoToken \/ ~jwtVerify(a.token, jwtSecret)) => a.user = NoUser
         /\ \/ a.pc = "handler"
            \/ /\ a.pc = "done" /\ a.status = 401 /\ a.message = "unauthorized"
               /\ a.route \in ProtectedRoutes /\ a.user = NoUser
         /\ a.route \notin ProtectedRoutes => a.pc = "handler"
C22_MiddlewareNeverRejects == [][C22_MiddlewareNeverRejectsStep]_vars

(* a request to an unguarded route that carried an active token with a bad *)
(* signature was served without a principal                                *)
C22_Witness ==
  /\ last.pc = "done" /\ last.route = "getMenu" /\ last.status = 200
  /\ last.token # NoToken /\ last.loggedIn
  /\ ~jwtVerify(last.token, jwtSecret)
  /\ last.user = NoUser

(* C23: read-after-write on one token under every interleaving.  The       *)
(* active-session check of a request reads the auth table as it is when    *)
(* the check runs; a completed activate leaves the signature in the table  *)
(* and a completed revoke leaves it out; and a signature enters or leaves  *)
(* the table in no other step.  Hence a check that starts after a revoke   *)
(* of T completed, with no activate of T in between, returns false, and    *)
(* one that starts after an activate of T completed, with no revoke of T   *)
(* in between, returns true.                                               *)
C23_ReadAfterWriteStep ==
  /\ \A r \in ReqIds :
       LET q == reqs[r]
           a == After(r)
       IN /\ q.pc = "auth" /\ Moves(r) =>
               /\ a.loggedIn <=> SigActive(q.token, auth)
               /\ a.user # NoUser => SigActive(q.token, auth)
          /\ q.pc = "setAuth" /\ Moves(r) => SigActive(setAuth(q.subject, now), auth')
          /\ Handling(r, "logout") /\ Moves(r) => ~SigActive(q.token, auth')
  /\ \A row \in auth \ auth' :
       \E r \in ReqIds : /\ Handling(r, "logout") /\ Moves(r)
                         /\ Len(reqs[r].token) >= 3 /\ reqs[r].token[3] = row.token
  /\ \A row \in auth' \ auth :
       \E r \in ReqIds : /\ reqs[r].pc = "setAuth" /\ Moves(r)
                         /\ setAuth(reqs[r].subject, now)[3] = row.token
C23_ReadAfterWrite == [][C23_ReadAfterWriteStep]_vars

(* a request that arrived after a logout of its token had completed found  *)
(* the token inactive and got the guard's 401                              *)
C23_Witness ==
  /\ last.pc = "done" /\ last.route = "logout" /\ last.status = 401
  /\ last.token \in issued /\ last.late
  /\ ~last.loggedIn
  /\ ~SigActive(last.token, auth)

(* C24: getTokenSignature returns the third dot-separated segment of the   *)
(* token when the token has at least three segments (two dots or more) and *)
(* the empty signature when it has fewer, the empty token included; the    *)
(* call completes for every token.                                         *)
DotsOf(str) == {i \in 1..Len(str) : str[i] = "."}
NthDot(str, n) ==
  CHOOSE i \in DotsOf(str) : Cardinality({j \in DotsOf(str) : j <= i}) = n
ThirdSegment(str) ==
  LET from == NthDot(str, 2) + 1
      to == IF Cardinality(DotsOf(str)) >= 3 THEN NthDot(str, 3) - 1 ELSE Len(str)
  IN [i \in 1..(to - from + 1) |-> str[from + i - 1]]
C24_SignatureIsThirdSegmentStep ==
  \A r \in ReqIds :
    reqs[r].pc = "signature" /\ Moves(r) =>
      /\ After(r).pc = "done"
      /\ IF Cardinality(DotsOf(reqs[r].token)) >= 2
         THEN After(r).result = {ThirdSegment(reqs[r].token)}
         ELSE After(r).result = {EmptySig}
C24_SignatureIsThirdSegment == [][C24_SignatureIsThirdSegmentStep]_vars

(* the signature of a token of four segments was taken: its third segment, *)
(* which is not its last                                                   *)
C24_Witness ==
  /\ last.pc = "done" /\ last.route = "none"
  /\ Cardinality(DotsOf(last.token)) = 3
  /\ last.result = {<<"a">>}
  /\ last.token[Len(last.token)] = "."

(* C25: once a logout bearing token T has been answered 200, no step taken *)
(* for a request bearing T changes the menu, orders, franchises, stores,   *)
(* users or roles, also when that request passed the active-session check  *)
(* before the logout completed.                                            *)
C25_NoMutationAfterLogoutStep ==
  \A r \in ReqIds :
    Moves(r) /\ reqs[r].token # NoToken /\ reqs[r].token \in revoked =>
      <<user, userRole, menu, franchise, store, dinerOrder>>' =
        <<user, userRole, menu, franchise, store, dinerOrder>>
C25_NoMutationAfterLogout == [][C25_NoMutationAfterLogoutStep]_vars

(* C26: the token returned by a successful PUT /user/:userId has claims    *)
(* whose id is :userId, whoever the requester is and whatever users are    *)
(* stored, also when the new email is the email of another user.           *)
C26_UpdateTokenBoundToTarget ==
  last.pc = "done" /\ last.route = "updateUser" /\ last.status = 200 =>
    /\ last.resToken # NoToken
    /\ Claims(last.resToken).id = last.id
    /\ last.subject.id = last.id

(* C27: a permitted PUT /user/:userId that is answered with an error       *)
(* leaves the user table and the auth table as they were.                  *)
C27_FailedUpdateChangesNothingStep ==
  \A r \in ReqIds :
    LET q == reqs[r]
    IN /\ Handling(r, "updateUser") /\ Moves(r)
       /\ (q.user.id = q.id \/ HasAdmin(q.user))
       /\ After(r).pc = "done" /\ After(r).status >= 400
       => user' = user /\ auth' = auth
C27_FailedUpdateChangesNothing == [][C27_FailedUpdateChangesNothingStep]_vars

(* C28: no privilege escalation through the API.  The users with an Admin  *)
(* role row are the seeded ones; a token issued by POST /auth carries      *)
(* exactly the Diner role; and a token with the Admin role is handed out   *)
(* only by a login or to a requester that already is an Admin.             *)
SeededAdmins == {1}
C29_NoOrphans ==
  /\ \A x \in store : \E f \in franchise : f.id = x.franchiseId
  /\ \A y \in userRole :
       y.role = "franchisee" => \E f \in franchise : f.id = y.objectId

(* C30: a POST /order answered 500 because the factory did not accept the  *)
(* order leaves no row of that order behind: what GET /order returns to    *)
(* the same diner from then on does not contain it.                        *)
C30_FailedOrderNotPersistedStep ==
  \A r \in ReqIds :
    LET q == reqs[r]
    IN Moves(r) /\ q.pc = "factory" /\ After(r).status = 500 =>
         \A o \in q.result : o \notin getOrders(dinerOrder', q.user)
C30_FailedOrderNotPersisted == [][C30_FailedOrderNotPersistedStep]_vars

====
